---- MODULE Spec2Model ----
(***************************************************************************)
(* Model of POE-OCR (src/ocr.py): the screen-to-alert pipeline runOCR, the *)
(* key-polling loop that drives it, and the pure helpers getHSVBounds,     *)
(* getPhraseROIs and hasMatchingPhrase.                                    *)
(*                                                                         *)
(* Two specifications share the variables:                                 *)
(*   SpecPure  one call of one helper on inputs drawn from bounded sets;   *)
(*   Spec      the process: config load, polling loop, pipeline steps.     *)
(*                                                                         *)
(* A string is a tuple of one-character strings.  A frame is represented   *)
(* by the list of bounding rectangles cv.findContours/cv.boundingRect give *)
(* for it, in contour order; a region of interest mask[y:y+h, x:x+w] is    *)
(* represented by the rectangle it is cropped at.                          *)
(***************************************************************************)
EXTENDS Integers, Sequences, FiniteSets

VARIABLES
    pc,            \* position of the module-level code (lines 133-149)
    runPc,         \* position inside runOCR (lines 125-130)
    fn,            \* SpecPure: the helper being called
    mode,          \* SpecPure: argument of getHSVBounds
    hsv,           \* result of getHSVBounds
    cnts,          \* bounding rectangles of the contours, in contour order
    rois,          \* result of getPhraseROIs
    phrases,       \* list built by getPhraseStrings / argument of the matcher
    searchStrings, \* the watch-list
    matched,       \* result of hasMatchingPhrase (FALSE until it returns)
    keyExit,       \* physical key states (VK_BACK, VK_LSHIFT, VK_LBUTTON)
    keyShift,
    keyMouse,
    exitState,     \* the loop's samples of the key states
    LShiftState,
    LMouseState,
    monitors,      \* number of displays: sct.monitors has indices 0..monitors
    alertCount,    \* playsound calls made by the current/last invocation
    playing,       \* alerts started and still sounding
    inFlight,      \* runOCR invocations entered and not yet left
    failure,       \* the uncaught exception, "none" if none
    trace,         \* sleeps and runs since the exit key was last sampled
    hadRun,        \* some invocation has returned
    debouncedSinceRun \* a debounce sleep happened since the last return

vars == <<pc, runPc, fn, mode, hsv, cnts, rois, phrases, searchStrings, matched,
          keyExit, keyShift, keyMouse, exitState, LShiftState, LMouseState,
          monitors, alertCount, playing, inFlight, failure, trace, hadRun,
          debouncedSinceRun>>

(***************************************************************************)
(* Bounds of the model.                                                    *)
(***************************************************************************)
MaxPhrases == 2
MaxStrings == 2
MaxCnts == 3
MaxPlaying == 2

(***************************************************************************)
(* Program constants.                                                      *)
(***************************************************************************)
ScoreCutoffPct == 90
MinHeight == 20
MinWidth == 200
Monitor == 2
DebounceMs == 250
PollMs == 20

Max(a, b) == IF a >= b THEN a ELSE b

\* The sequences over S of length at most n / without repeated elements.
SeqsUpTo(S, n) == UNION {[1..k -> S] : k \in 0..n}
InjSeqsUpTo(S, n) == {s \in SeqsUpTo(S, n) : \A i, j \in 1..Len(s) : s[i] = s[j] => i = j}

(***************************************************************************)
(* str.lower()                                                             *)
(***************************************************************************)
Upper == <<"A","B","C","D","E","F","G","H","I","J","K","L","M",
           "N","O","P","Q","R","S","T","U","V","W","X","Y","Z">>
Lower == <<"a","b","c","d","e","f","g","h","i","j","k","l","m",
           "n","o","p","q","r","s","t","u","v","w","x","y","z">>

lowerChar(c) ==
    IF \E i \in 1..Len(Upper) : Upper[i] = c
    THEN Lower[CHOOSE i \in 1..Len(Upper) : Upper[i] = c]
    ELSE c

lower(s) == [i \in 1..Len(s) |-> lowerChar(s[i])]

(***************************************************************************)
(* Levenshtein.ratio(s1, s2, score_cutoff=c): the normalized Indel         *)
(* similarity (len1 + len2 - dist) / (len1 + len2), where dist is the edit *)
(* distance with insertions and deletions only, dist = len1 + len2 -       *)
(* 2*lcs; 1.0 for two empty strings; 0 instead of a ratio below c.  The    *)
(* result is the fraction <<numerator, denominator>>.                      *)
(***************************************************************************)
RECURSIVE LcsRow(_, _, _, _)
LcsRow(prev, a, s2, acc) ==
    LET j == Len(acc) IN
    IF j > Len(s2) THEN acc
    ELSE LcsRow(prev, a, s2,
                Append(acc, IF a = s2[j] THEN prev[j] + 1
                            ELSE Max(prev[j + 1], acc[j])))

RECURSIVE LcsRows(_, _, _, _)
LcsRows(s1, s2, i, prev) ==
    IF i > Len(s1) THEN prev[Len(s2) + 1]
    ELSE LcsRows(s1, s2, i + 1, LcsRow(prev, s1[i], s2, <<0>>))

lcs(s1, s2) == LcsRows(s1, s2, 1, [k \in 1..(Len(s2) + 1) |-> 0])

indelDistance(s1, s2) == Len(s1) + Len(s2) - 2 * lcs(s1, s2)

rawRatio(s1, s2) ==
    LET lensum == Len(s1) + Len(s2) IN
    IF lensum = 0 THEN <<1, 1>> ELSE <<lensum - indelDistance(s1, s2), lensum>>

ratioNoCutoff(s1, s2, cutoffPct) == rawRatio(s1, s2)

ratio(s1, s2, cutoffPct) ==
    LET r == rawRatio(s1, s2) IN
    IF 100 * r[1] >= cutoffPct * r[2] THEN r ELSE <<0, 1>>

\* Python truth value of a float.
Truthy(r) == r[1] # 0

(***************************************************************************)
(* hasMatchingPhrase (lines 111-123): the nested loops with their early    *)
(* return.                                                                 *)
(***************************************************************************)
RECURSIVE StringLoop(_, _, _)
StringLoop(phrase, strs, j) ==
    IF j > Len(strs) THEN FALSE
    ELSE IF Truthy(ratio(lower(phrase), strs[j], ScoreCutoffPct)) THEN TRUE
    ELSE StringLoop(phrase, strs, j + 1)

RECURSIVE PhraseLoop(_, _, _)
PhraseLoop(phs, strs, i) ==
    IF i > Len(phs) THEN FALSE
    ELSE IF StringLoop(phs[i], strs, 1) THEN TRUE
    ELSE PhraseLoop(phs, strs, i + 1)

hasMatchingPhrase(phs, strs) == PhraseLoop(phs, strs, 1)

(***************************************************************************)
(* getPhraseROIs (lines 85-96), from the contour list on: the stable sort  *)
(* by boundingRect(c)[0], then the size filter in sorted order.            *)
(***************************************************************************)
keyX(r) == r.x
keyY(r) == r.y
sortKey(r) == keyX(r)

\* list.sort is stable: an element goes after every element whose key is
\* not greater than its own.
RECURSIVE InsertByKey(_, _, _)
InsertByKey(s, e, i) ==
    IF i > Len(s) THEN Append(s, e)
    ELSE IF sortKey(s[i]) > sortKey(e)
         THEN SubSeq(s, 1, i - 1) \o <<e>> \o SubSeq(s, i, Len(s))
         ELSE InsertByKey(s, e, i + 1)

RECURSIVE SortLoop(_, _, _)
SortLoop(s, i, acc) ==
    IF i > Len(s) THEN acc ELSE SortLoop(s, i + 1, InsertByKey(acc, s[i], 1))

sorted(s) == SortLoop(s, 1, <<>>)

keepLoose(r) == r.h >= MinHeight /\ r.w >= MinWidth

keep(r) == r.h > MinHeight /\ r.w > MinWidth

RECURSIVE FilterLoop(_, _, _)
FilterLoop(s, i, acc) ==
    IF i > Len(s) THEN acc
    ELSE FilterLoop(s, i + 1, IF keep(s[i]) THEN Append(acc, s[i]) ELSE acc)

getPhraseROIs(cs) == FilterLoop(sorted(cs), 1, <<>>)

(***************************************************************************)
(* getHSVBounds (lines 22-44).  np.array takes one array-like and an       *)
(* optional dtype: called with three integers it raises TypeError.         *)
(***************************************************************************)
np_array(args) ==
    IF Len(args) = 1
    THEN [raised |-> FALSE, value |-> args[1]]
    ELSE [raised |-> TRUE, value |-> <<>>]

getHSVBounds(m) ==
    LET lo == CASE m = "sextants"  -> np_array(<< <<102, 57, 180>> >>)
                [] m = "equipment" -> np_array(<< <<120, 119, 165>> >>)
                [] OTHER           -> np_array(<< <<0, 0, 0>> >>)
        up == CASE m = "sextants"  -> np_array(<< <<103, 61, 255>> >>)
                [] m = "equipment" -> np_array(<< <<121, 123, 255>> >>)
                [] OTHER           -> np_array(<<255, 255, 255>>)
    IN  IF lo.raised \/ up.raised
        THEN [raised |-> TRUE, error |-> "TypeError", lower |-> <<>>, upper |-> <<>>]
        ELSE [raised |-> FALSE, error |-> "none", lower |-> lo.value, upper |-> up.value]

(***************************************************************************)
(* Input domains.                                                          *)
(***************************************************************************)
sHelloWorld  == <<"h","e","l","l","o"," ","w","o","r","l","d">>
sHELLOWORLD  == <<"H","E","L","L","O"," ","W","O","R","L","D">>
sHellxWorld  == <<"h","e","l","l","x"," ","w","o","r","l","d">>
sHelloworld  == <<"h","e","l","l","o","w","o","r","l","d">>
sHellxworld  == <<"h","e","l","l","x","w","o","r","l","d">>
sHelloworl   == <<"h","e","l","l","o","w","o","r","l">>
sHellxworl   == <<"h","e","l","l","x","w","o","r","l">>
sEmpty       == <<>>

\* Texts pytesseract.image_to_string may return for a region.
PhrasePool == {sHELLOWORLD, sHellxWorld, sHellxworld, sHellxworl, sEmpty}
\* Lines of config/search_strings.txt.
StringPool == {sHelloWorld, sHelloworld, sHelloworl, sEmpty}

\* Values cv.boundingRect may give for a contour.
RectPool == [x : {10, 300}, y : {0, 40}, w : {MinWidth, MinWidth + 1},
             h : {MinHeight, MinHeight + 1}]

Presets == {"sextants", "equipment"}
Modes == Presets \cup {"", "currency", "Equipment"}

NoHSV == [raised |-> FALSE, error |-> "none", lower |-> <<>>, upper |-> <<>>]

(***************************************************************************)
(* SpecPure: one call of one helper.                                       *)
(***************************************************************************)
LoopAtRest ==
    /\ runPc = "idle"
    /\ keyExit = FALSE /\ keyShift = FALSE /\ keyMouse = FALSE
    /\ exitState = FALSE /\ LShiftState = FALSE /\ LMouseState = FALSE
    /\ monitors = Monitor
    /\ alertCount = 0 /\ playing = 0 /\ inFlight = 0
    /\ failure = "none"
    /\ trace = <<>>
    /\ hadRun = FALSE /\ debouncedSinceRun = FALSE

loopVars == <<runPc, keyExit, keyShift, keyMouse, exitState, LShiftState,
              LMouseState, monitors, alertCount, playing, inFlight, failure,
              trace, hadRun, debouncedSinceRun>>

InitPure ==
    /\ pc = "call"
    /\ LoopAtRest
    /\ hsv = NoHSV /\ rois = <<>> /\ matched = FALSE
    /\ \/ /\ fn = "getHSVBounds"
          /\ mode \in Modes
          /\ cnts = <<>> /\ phrases = <<>> /\ searchStrings = <<>>
       \/ /\ fn = "getPhraseROIs"
          /\ cnts \in InjSeqsUpTo(RectPool, MaxCnts)
          /\ mode = "equipment" /\ phrases = <<>> /\ searchStrings = <<>>
       \/ /\ fn = "hasMatchingPhrase"
          /\ phrases \in SeqsUpTo(PhrasePool, MaxPhrases)
          /\ searchStrings \in SeqsUpTo(StringPool, MaxStrings)
          /\ mode = "equipment" /\ cnts = <<>>

CallGetHSVBounds ==
    /\ pc = "call" /\ fn = "getHSVBounds"
    /\ hsv' = getHSVBounds(mode)
    /\ pc' = "returned"
    /\ UNCHANGED <<fn, mode, cnts, rois, phrases, searchStrings, matched>>
    /\ UNCHANGED loopVars

CallGetPhraseROIs ==
    /\ pc = "call" /\ fn = "getPhraseROIs"
    /\ rois' = getPhraseROIs(cnts)
    /\ pc' = "returned"
    /\ UNCHANGED <<fn, mode, hsv, cnts, phrases, searchStrings, matched>>
    /\ UNCHANGED loopVars

CallHasMatchingPhrase ==
    /\ pc = "call" /\ fn = "hasMatchingPhrase"
    /\ matched' = hasMatchingPhrase(phrases, searchStrings)
    /\ pc' = "returned"
    /\ UNCHANGED <<fn, mode, hsv, cnts, rois, phrases, searchStrings>>
    /\ UNCHANGED loopVars

NextPure ==
    \/ CallGetHSVBounds
    \/ CallGetPhraseROIs
    \/ CallHasMatchingPhrase

SpecPure == InitPure /\ [][NextPure]_vars

(***************************************************************************)
(* Claims about the helpers (checked under SpecPure).                      *)
(***************************************************************************)
Range(s) == {s[i] : i \in 1..Len(s)}
IndexOf(s, e) == CHOOSE i \in 1..Len(s) : s[i] = e

\* The similarity ratio of a and b is at least 0.90, in exact arithmetic.
AtLeastCutoff(a, b) ==
    LET r == rawRatio(a, b) IN 10 * r[1] >= 9 * r[2]

SomePairMatches ==
    \E i \in 1..Len(phrases) : \E j \in 1..Len(searchStrings) :
        AtLeastCutoff(lower(phrases[i]), searchStrings[j])

\* C1: hasMatchingPhrase returns true exactly when some (candidate, target)
\* pair has a similarity ratio of at least 0.90 between the lowercased
\* candidate and the target; it returns false for an empty candidate list and
\* for an empty watch-list.
C1_MatchIffSomePairAtCutoff ==
    (fn = "hasMatchingPhrase" /\ pc = "returned") =>
        /\ matched = SomePairMatches
        /\ (phrases = <<>> => matched = FALSE)
        /\ (searchStrings = <<>> => matched = FALSE)

\* C1 witness: a call returned true on a pair that sits exactly on the
\* cutoff (ratio 18/20) and is not an exact match.
C1_Witness ==
    /\ fn = "hasMatchingPhrase" /\ pc = "returned"
    /\ matched = TRUE
    /\ phrases = <<sHellxworl, sHellxworld>>
    /\ searchStrings = <<sHelloworl, sHelloworld>>

Qualifies(r) == r.h > 20 /\ r.w > 200

FilterThenSort(cs) == sorted(SelectSeq(cs, Qualifies))

\* C3: the regions getPhraseROIs returns are in ascending order of x, regions
\* of equal x keep their contour order, and sorting before filtering gives
\* the same sequence as filtering first and then sorting stably.
C3_RegionsAscendingByX ==
    (fn = "getPhraseROIs" /\ pc = "returned") =>
        /\ \A i, j \in 1..Len(rois) : i < j => rois[i].x <= rois[j].x
        /\ \A i, j \in 1..Len(rois) :
               (i < j /\ rois[i].x = rois[j].x) =>
                   IndexOf(cnts, rois[i]) < IndexOf(cnts, rois[j])
        /\ rois = FilterThenSort(cnts)

\* C3 witness: three qualifying contours given right-to-left, two of them
\* with the same x, come back left-to-right with the tie in contour order.
C3_Witness ==
    /\ fn = "getPhraseROIs" /\ pc = "returned"
    /\ Len(cnts) = 3 /\ Len(rois) = 3
    /\ cnts[1].x = 300 /\ cnts[2].x = 10 /\ cnts[3].x = 10
    /\ rois = <<cnts[2], cnts[3], cnts[1]>>

\* C4: getPhraseROIs returns a region for a bounding rectangle exactly when
\* its height is > 20 and its width is > 200; nothing qualifying is dropped or
\* repeated, and with no qualifying rectangle the result is the empty list.
C4_RegionsExactlyTheLargeRects ==
    (fn = "getPhraseROIs" /\ pc = "returned") =>
        /\ \A i \in 1..Len(rois) : rois[i].h > 20 /\ rois[i].w > 200
        /\ \A c \in Range(cnts) : Qualifies(c) <=> c \in Range(rois)
        /\ Len(rois) = Cardinality({c \in Range(cnts) : Qualifies(c)})
        /\ ((\A c \in Range(cnts) : ~Qualifies(c)) => rois = <<>>)

\* C4 witness: of three contours, one fails on height only, one on width
\* only, and exactly the third is returned.
C4_Witness ==
    /\ fn = "getPhraseROIs" /\ pc = "returned"
    /\ Len(cnts) = 3 /\ Len(rois) = 1
    /\ \E c \in Range(cnts) : c.h = 20 /\ c.w = 201
    /\ \E c \in Range(cnts) : c.h = 21 /\ c.w = 200

\* C5: for every mode other than the presets getHSVBounds returns, without
\* failing, lower = (0,0,0) and upper = (255,255,255).
C5_UnknownModeGivesWidestRange ==
    (fn = "getHSVBounds" /\ pc = "returned" /\ mode \notin Presets) =>
        /\ ~hsv.raised
        /\ hsv.lower = <<0, 0, 0>>
        /\ hsv.upper = <<255, 255, 255>>
        /\ \A k \in 1..3 : hsv.lower[k] <= hsv.upper[k]

(***************************************************************************)
(* Spec: the process.  Environment of the loop specification.              *)
(***************************************************************************)
\* Number of displays attached.
Displays == {1, 2}

\* Contents of config/search_strings.txt.
WatchLists == {<<>>, <<sHelloWorld>>, <<sHelloworl, sHelloWorld>>}

\* Bounding rectangles found in a captured frame.
FrameRects == {[x |-> 300, y |-> 0,  w |-> MinWidth + 1, h |-> MinHeight + 1],
               [x |-> 10,  y |-> 40, w |-> MinWidth + 1, h |-> MinHeight + 1],
               [x |-> 10,  y |-> 0,  w |-> MinWidth,     h |-> MinHeight]}
Frames == InjSeqsUpTo(FrameRects, MaxCnts)

\* Texts the recognizer returns.
OcrTexts == {sHELLOWORLD, sHellxworl, sEmpty}

Init ==
    /\ pc = "start"
    /\ runPc = "idle"
    /\ fn = "main" /\ mode = "equipment"
    /\ hsv = NoHSV
    /\ cnts = <<>> /\ rois = <<>> /\ phrases = <<>>
    /\ searchStrings = <<>>
    /\ matched = FALSE
    /\ keyExit \in BOOLEAN /\ keyShift \in BOOLEAN /\ keyMouse \in BOOLEAN
    /\ exitState = FALSE /\ LShiftState = FALSE /\ LMouseState = FALSE
    /\ monitors \in Displays
    /\ alertCount = 0 /\ playing = 0 /\ inFlight = 0
    /\ failure = "none"
    /\ trace = <<>>
    /\ hadRun = FALSE /\ debouncedSinceRun = FALSE

Alive == pc \notin {"exited", "crashed"}

keyVars == <<keyExit, keyShift, keyMouse>>
sampleVars == <<exitState, LShiftState, LMouseState>>
dataVars == <<fn, mode, hsv, cnts, rois, phrases, searchStrings, matched>>
histVars == <<trace, hadRun, debouncedSinceRun>>

\* The user presses or releases a key.
PressExit ==
    /\ Alive
    /\ keyExit' = ~keyExit
    /\ UNCHANGED <<pc, runPc, keyShift, keyMouse, monitors, alertCount, playing,
                   inFlight, failure>>
    /\ UNCHANGED <<sampleVars, dataVars, histVars>>

PressShift ==
    /\ Alive
    /\ keyShift' = ~keyShift
    /\ UNCHANGED <<pc, runPc, keyExit, keyMouse, monitors, alertCount, playing,
                   inFlight, failure>>
    /\ UNCHANGED <<sampleVars, dataVars, histVars>>

PressMouse ==
    /\ Alive
    /\ keyMouse' = ~keyMouse
    /\ UNCHANGED <<pc, runPc, keyExit, keyShift, monitors, alertCount, playing,
                   inFlight, failure>>
    /\ UNCHANGED <<sampleVars, dataVars, histVars>>

\* Lines 133-134 and getSearchStrings (11-20): the file is read.
LoadConfig ==
    /\ pc = "start"
    /\ \E wl \in WatchLists : searchStrings' = wl
    /\ pc' = "loop"
    /\ UNCHANGED <<runPc, fn, mode, hsv, cnts, rois, phrases, matched, monitors,
                   alertCount, playing, inFlight, failure>>
    /\ UNCHANGED <<keyVars, sampleVars, histVars>>

\* Line 18: open() raises when the file is missing.
LoadConfigFail ==
    /\ pc = "start"
    /\ pc' = "crashed"
    /\ failure' = "FileNotFoundError"
    /\ UNCHANGED <<runPc, monitors, alertCount, playing, inFlight>>
    /\ UNCHANGED <<keyVars, sampleVars, dataVars, histVars>>

\* Lines 137-140: sample the exit key; break if it is down.
PollExit ==
    /\ pc = "loop"
    /\ exitState' = keyExit
    /\ pc' = IF keyExit THEN "exited" ELSE "readShift"
    /\ trace' = <<>>
    /\ UNCHANGED <<runPc, LShiftState, LMouseState, monitors, alertCount, playing,
                   inFlight, failure, hadRun, debouncedSinceRun>>
    /\ UNCHANGED <<keyVars, dataVars>>

\* Line 142.
ReadShift ==
    /\ pc = "readShift"
    /\ LShiftState' = keyShift
    /\ pc' = "readMouse"
    /\ UNCHANGED <<runPc, exitState, LMouseState, monitors, alertCount, playing,
                   inFlight, failure>>
    /\ UNCHANGED <<keyVars, dataVars, histVars>>

\* Lines 143 and 145.
ReadMouse ==
    /\ pc = "readMouse"
    /\ LMouseState' = keyMouse
    /\ pc' = IF LShiftState /\ keyMouse THEN "debounce" ELSE "idleSleep"
    /\ UNCHANGED <<runPc, exitState, LShiftState, monitors, alertCount, playing,
                   inFlight, failure>>
    /\ UNCHANGED <<keyVars, dataVars, histVars>>

\* A variant of Debounce that does not sleep.
DebounceSkipped ==
    /\ pc = "debounce"
    /\ pc' = "call"
    /\ UNCHANGED <<runPc, monitors, alertCount, playing, inFlight, failure>>
    /\ UNCHANGED <<keyVars, sampleVars, dataVars, histVars>>

\* Line 146: time.sleep(0.25), before the call of runOCR.
Debounce ==
    /\ pc = "debounce"
    /\ trace' = Append(trace, <<"sleep", DebounceMs>>)
    /\ debouncedSinceRun' = TRUE
    /\ pc' = "call"
    /\ UNCHANGED <<runPc, monitors, alertCount, playing, inFlight, failure, hadRun>>
    /\ UNCHANGED <<keyVars, sampleVars, dataVars>>

\* A variant of CallRunOCR that starts the invocation and goes on polling.
CallRunOCRDetached ==
    /\ pc = "call"
    /\ pc' = "loop"
    /\ runPc' = "capture"
    /\ inFlight' = inFlight + 1
    /\ alertCount' = 0
    /\ matched' = FALSE
    /\ UNCHANGED <<fn, mode, hsv, cnts, rois, phrases, searchStrings, monitors,
                   playing, failure>>
    /\ UNCHANGED <<keyVars, sampleVars, histVars>>

\* Line 147: the loop enters runOCR and waits for it.
CallRunOCR ==
    /\ pc = "call"
    /\ pc' = "running"
    /\ runPc' = "capture"
    /\ inFlight' = inFlight + 1
    /\ alertCount' = 0
    /\ matched' = FALSE
    /\ UNCHANGED <<fn, mode, hsv, cnts, rois, phrases, searchStrings, monitors,
                   playing, failure>>
    /\ UNCHANGED <<keyVars, sampleVars, histVars>>

\* Line 149: time.sleep(0.02).
IdleSleep ==
    /\ pc = "idleSleep"
    /\ trace' = Append(trace, <<"sleep", PollMs>>)
    /\ pc' = "loop"
    /\ UNCHANGED <<runPc, monitors, alertCount, playing, inFlight, failure, hadRun,
                   debouncedSinceRun>>
    /\ UNCHANGED <<keyVars, sampleVars, dataVars>>

(***************************************************************************)
(* runOCR (lines 125-130), one action per call it makes.                   *)
(***************************************************************************)
loopOnly == <<pc, monitors, searchStrings, fn, mode>>

\* Line 126 and getScreenshot (46-59): sct.monitors[2] exists.
GetScreenshot ==
    /\ runPc = "capture"
    /\ Monitor <= monitors
    /\ \E f \in Frames : cnts' = f
    /\ runPc' = "rois"
    /\ UNCHANGED <<hsv, rois, phrases, matched, alertCount, playing, inFlight, failure>>
    /\ UNCHANGED <<loopOnly, keyVars, sampleVars, histVars>>

\* Line 58: sct.monitors[2] raises IndexError when there is no second display.
GetScreenshotFail ==
    /\ runPc = "capture"
    /\ Monitor > monitors
    /\ runPc' = "raised"
    /\ failure' = "IndexError"
    /\ UNCHANGED <<hsv, cnts, rois, phrases, matched, alertCount, playing, inFlight>>
    /\ UNCHANGED <<loopOnly, keyVars, sampleVars, histVars>>

\* Line 106: getPhraseROIs(img), which takes the bounds of the default mode
\* (line 70) on its way.
GetROIs ==
    /\ runPc = "rois"
    /\ hsv' = getHSVBounds("equipment")
    /\ IF hsv'.raised
       THEN /\ runPc' = "raised"
            /\ failure' = hsv'.error
            /\ rois' = rois
       ELSE /\ runPc' = "ocr"
            /\ failure' = failure
            /\ rois' = getPhraseROIs(cnts)
    /\ UNCHANGED <<cnts, phrases, matched, alertCount, playing, inFlight>>
    /\ UNCHANGED <<loopOnly, keyVars, sampleVars, histVars>>

\* Line 107: the recognizer returns a text for the next region.
OcrRegion ==
    /\ runPc = "ocr"
    /\ Len(phrases) < Len(rois)
    /\ \E s \in OcrTexts : phrases' = Append(phrases, s)
    /\ UNCHANGED <<runPc, hsv, cnts, rois, matched, alertCount, playing, inFlight, failure>>
    /\ UNCHANGED <<loopOnly, keyVars, sampleVars, histVars>>

\* Line 107: the recognizer raises; nothing in getPhraseStrings or runOCR
\* catches it.
OcrRaise ==
    /\ runPc = "ocr"
    /\ Len(phrases) < Len(rois)
    /\ runPc' = "raised"
    /\ failure' = "TesseractError"
    /\ UNCHANGED <<hsv, cnts, rois, phrases, matched, alertCount, playing, inFlight>>
    /\ UNCHANGED <<loopOnly, keyVars, sampleVars, histVars>>

\* Lines 109, 127: every region has been recognized.
OcrDone ==
    /\ runPc = "ocr"
    /\ Len(phrases) = Len(rois)
    /\ runPc' = "match"
    /\ UNCHANGED <<hsv, cnts, rois, phrases, matched, alertCount, playing, inFlight, failure>>
    /\ UNCHANGED <<loopOnly, keyVars, sampleVars, histVars>>

\* A variant of Match that takes the alert branch whatever the matcher says.
MatchIgnored ==
    /\ runPc = "match"
    /\ matched' = hasMatchingPhrase(phrases, searchStrings)
    /\ runPc' = "alert"
    /\ UNCHANGED <<hsv, cnts, rois, phrases, alertCount, playing, inFlight, failure>>
    /\ UNCHANGED <<loopOnly, keyVars, sampleVars, histVars>>

\* Line 129.
Match ==
    /\ runPc = "match"
    /\ matched' = hasMatchingPhrase(phrases, searchStrings)
    /\ runPc' = IF matched' THEN "alert" ELSE "return"
    /\ UNCHANGED <<hsv, cnts, rois, phrases, alertCount, playing, inFlight, failure>>
    /\ UNCHANGED <<loopOnly, keyVars, sampleVars, histVars>>

\* Line 130: playsound(..., block=False) starts the clip and returns.
Alert ==
    /\ runPc = "alert"
    /\ playing < MaxPlaying
    /\ alertCount' = alertCount + 1
    /\ playing' = playing + 1
    /\ runPc' = "return"
    /\ UNCHANGED <<hsv, cnts, rois, phrases, matched, inFlight, failure>>
    /\ UNCHANGED <<loopOnly, keyVars, sampleVars, histVars>>

\* Line 130: playsound is called and raises (the clip cannot be opened).
AlertRaise ==
    /\ runPc = "alert"
    /\ alertCount' = alertCount + 1
    /\ runPc' = "raised"
    /\ failure' = "PlaysoundException"
    /\ UNCHANGED <<hsv, cnts, rois, phrases, matched, playing, inFlight>>
    /\ UNCHANGED <<loopOnly, keyVars, sampleVars, histVars>>

\* runOCR returns; the loop goes back to line 136.  The locals are dropped.
Return ==
    /\ runPc = "return"
    /\ pc = "running"
    /\ runPc' = "idle"
    /\ pc' = "loop"
    /\ inFlight' = inFlight - 1
    /\ cnts' = <<>> /\ rois' = <<>> /\ phrases' = <<>>
    /\ trace' = Append(trace, <<"run", 0>>)
    /\ hadRun' = TRUE
    /\ debouncedSinceRun' = FALSE
    /\ UNCHANGED <<fn, mode, hsv, searchStrings, matched, monitors, alertCount,
                   playing, failure>>
    /\ UNCHANGED <<keyVars, sampleVars>>

\* The exception leaves runOCR and the loop: the process dies.
Propagate ==
    /\ runPc = "raised"
    /\ pc = "running"
    /\ runPc' = "idle"
    /\ pc' = "crashed"
    /\ inFlight' = inFlight - 1
    /\ cnts' = <<>> /\ rois' = <<>> /\ phrases' = <<>>
    /\ UNCHANGED <<fn, mode, hsv, searchStrings, matched, monitors, alertCount,
                   playing, failure>>
    /\ UNCHANGED <<keyVars, sampleVars, histVars>>

\* A clip started by playsound ends.
AlertFinish ==
    /\ playing > 0
    /\ playing' = playing - 1
    /\ UNCHANGED <<pc, runPc, monitors, alertCount, inFlight, failure>>
    /\ UNCHANGED <<keyVars, sampleVars, dataVars, histVars>>

Next ==
    \/ PressExit \/ PressShift \/ PressMouse
    \/ LoadConfig \/ LoadConfigFail
    \/ PollExit \/ ReadShift \/ ReadMouse
    \/ Debounce \/ CallRunOCR \/ IdleSleep
    \/ GetScreenshot \/ GetScreenshotFail
    \/ GetROIs
    \/ OcrRegion \/ OcrRaise \/ OcrDone
    \/ Match \/ Alert \/ AlertRaise
    \/ Return \/ Propagate
    \/ AlertFinish

Spec == Init /\ [][Next]_vars

(***************************************************************************)
(* Claims about the pipeline and the loop (checked under Spec).            *)
(***************************************************************************)
LoopPositions == {"loop", "readShift", "readMouse", "debounce", "call",
                  "running", "idleSleep"}

RunEvent == <<"run", 0>>
RanSincePoll == \E k \in 1..Len(trace) : trace[k] = RunEvent

\* C2: in one invocation of runOCR playsound is called once when the matcher
\* reported a match and not at all when it reported none; never more than
\* once, and never before hasMatchingPhrase has returned.
C2_AlertOncePerMatch ==
    /\ alertCount <= 1
    /\ (alertCount = 1 => (matched /\ runPc \in {"return", "raised", "idle"}))
    /\ (runPc \in {"capture", "rois", "ocr", "match", "alert"} => alertCount = 0)
    /\ (runPc \in {"return", "idle"} => alertCount = IF matched THEN 1 ELSE 0)

\* C2 witness: an invocation has returned with a match and exactly one alert,
\* which is still sounding when the loop is about to poll again.
C2_Witness ==
    /\ pc = "loop" /\ hadRun /\ trace = << <<"sleep", 250>>, RunEvent >>
    /\ matched /\ alertCount = 1 /\ playing = 1
    /\ failure = "none"

\* C6: an invalid monitor index is detected at startup: the process is never
\* in the polling loop with an index that names no display, and no invocation
\* fails because of it.
C6_SelectorValidatedAtStartup ==
    /\ (pc \in LoopPositions => Monitor <= monitors)
    /\ failure # "IndexError"

\* C7: when the recognizer fails on a region the region contributes the empty
\* text, the remaining regions are still recognized, and the invocation goes
\* on to matching instead of aborting.
C7_RecognizerFailureAbsorbed ==
    (failure = "TesseractError") =>
        /\ runPc # "raised"
        /\ pc # "crashed"

\* C8: at most one invocation of runOCR is in flight; the loop stands at its
\* call for exactly as long as the invocation runs and no pipeline stage is
\* active outside it, so that only a started alert can outlive it.
C8_OneInvocationInFlight ==
    /\ inFlight \in {0, 1}
    /\ (inFlight = 1 <=> pc = "running")
    /\ (runPc # "idle" <=> pc = "running")

\* C8 witness: the invocation has returned, the loop is polling keys again,
\* and the alert it started is still sounding.
C8_Witness ==
    /\ pc = "readShift" /\ hadRun
    /\ inFlight = 0 /\ runPc = "idle"
    /\ playing > 0

\* C9 as stated: a run is followed by the 0.25 s delay before the exit key is
\* sampled again; consecutive runs have a debounce delay between them; an idle
\* iteration sleeps 0.02 s only.
C9_DebounceFollowsRun ==
    /\ (pc = "loop" /\ RanSincePoll) =>
           trace = << RunEvent, <<"sleep", 250>> >>
    /\ ((inFlight = 1 /\ hadRun) => debouncedSinceRun)
    /\ ((pc = "loop" /\ ~RanSincePoll /\ trace # <<>>) => trace = << <<"sleep", 20>> >>)

\* C9 amended: a run is preceded by the 0.25 s delay, taken after the trigger
\* keys were read, and the exit key is sampled right after the run returns;
\* consecutive runs still have a debounce delay between them, after the first
\* has returned; an idle iteration sleeps 0.02 s only.
C9_DebouncePrecedesRun ==
    /\ (pc = "loop" /\ RanSincePoll) =>
           trace = << <<"sleep", 250>>, RunEvent >>
    /\ (pc \in {"call", "running"} => trace = << <<"sleep", 250>> >>)
    /\ ((inFlight = 1 /\ hadRun) => debouncedSinceRun)
    /\ ((pc = "loop" /\ ~RanSincePoll /\ trace # <<>>) => trace = << <<"sleep", 20>> >>)

\* C9 witness: with the combination still held, a second run is in flight
\* and a debounce delay lies between it and the return of the first.
C9_Witness ==
    /\ inFlight = 1 /\ hadRun /\ debouncedSinceRun
    /\ keyShift /\ keyMouse /\ LShiftState /\ LMouseState
    /\ trace = << <<"sleep", 250>> >>

\* The exit key never cuts an invocation short: a step that samples it or
\* ends the loop starts at the top of the loop with no run in flight; a run in
\* flight is left only through its own return or an exception of its own,
\* whatever the exit key does; and whenever the exit key is seen down the loop
\* ends without starting a run, trigger held or not.
ExitKeyNeverCutsARun ==
    [][ /\ ((exitState' # exitState \/ (pc' = "exited" /\ pc # "exited")) =>
               (pc = "loop" /\ inFlight = 0 /\ runPc = "idle"))
        /\ ((pc = "loop" /\ pc' # pc /\ keyExit) =>
               (pc' = "exited" /\ exitState' /\ inFlight' = 0 /\ runPc' = "idle"))
        /\ (exitState => pc = "exited")
        /\ ((inFlight = 1 /\ inFlight' # 1) => runPc \in {"return", "raised"})
        /\ ((runPc # "idle" /\ runPc' # runPc) => (pc = "running" /\ ~exitState'))
      ]_vars

\* C10: the exit key is sampled only between invocations and never inside a
\* run in flight; an invocation that has started always runs to completion
\* (it is left only by returning); and whenever the exit key is seen down the
\* loop ends without starting a run, trigger held or not.
C10_ExitOnlyBetweenInvocations ==
    [][ /\ ((exitState' # exitState \/ (pc' = "exited" /\ pc # "exited")) =>
               (pc = "loop" /\ inFlight = 0 /\ runPc = "idle"))
        /\ ((pc = "loop" /\ pc' # pc /\ keyExit) =>
               (pc' = "exited" /\ exitState' /\ inFlight' = 0 /\ runPc' = "idle"))
        /\ (exitState => pc = "exited")
        /\ ((inFlight = 1 /\ inFlight' # 1) => (runPc = "return" /\ pc' = "loop"))
      ]_vars

\* A state the lemma is about: after a run that returned, the loop has ended
\* on the exit key while the trigger combination is held.
ExitedWithTriggerHeld ==
    /\ pc = "exited" /\ exitState
    /\ keyExit /\ keyShift /\ keyMouse
    /\ hadRun /\ inFlight = 0

====
